---- MODULE Spec2Model ----
(***************************************************************************)
(* Model of server.py: an HTTPS static file server.  run() builds an       *)
(* http.server.HTTPServer with the handler class CORSHTTPServer, a         *)
(* SimpleHTTPRequestHandler whose end_headers() adds three header lines    *)
(* before it calls the inherited end_headers(); the listening socket is    *)
(* wrapped by an SSLContext and serve_forever() runs the accept loop.      *)
(* The inherited behaviour (request parsing, path translation, file        *)
(* serving, error replies, the accept loop) is the Python 3.11 standard    *)
(* library's, modelled here as far as the handler and run() reach it.      *)
(***************************************************************************)
EXTENDS Integers, Sequences, FiniteSets, TLC

\* ------------------------------------------------------------------- state
VARIABLES
    env,        \* the environment run() starts in
    pc,         \* run()'s position
    error,      \* the exception run() died of, "" if none
    sock,       \* httpd.socket: "none", "listening", "closed"
    wrapped,    \* httpd.socket is the SSLSocket made by wrap_socket
    backlog,    \* connections the kernel completed, not yet accepted
    cur,        \* the connection the serving loop is busy with, or None
    conn,       \* each connection's state
    tls,        \* each connection's TLS handshake: "none", "pending", "done", "failed"
    kind,       \* each client's behaviour
    rfile,      \* what each client has sent on its connection
    wfile,      \* what the server has written to each connection
    handler,    \* the handler object of each connection
    failures    \* history: the failing requests answered so far: "none", "one", "many"

\* ------------------------------------------------------------------ bounds
NClients == 2
MaxSegs == 2
MaxTime == 2

Clients == 1..NClients
None == 0

\* ------------------------------------------------- small sequence helpers
Last(s) == s[Len(s)]
Front(s) == SubSeq(s, 1, Len(s) - 1)
IsPrefix(s, t) == Len(s) <= Len(t) /\ SubSeq(t, 1, Len(s)) = s

\* ------------------------------------------------------- request universe
\* A request path is the list of its "/"-separated segments after the
\* leading slash: "/" is <<"">>, "/assets/" is <<"assets", "">>,
\* "/../index.html" is <<"..", "index.html">>.
Names == {"index.html", "assets", "app.js", "missing.txt", "secret.txt",
          "broken.bin", "..", ""}
Paths == UNION {[1..n -> Names] : n \in 1..MaxSegs}
Methods == {"GET", "HEAD", "POST"}
Versions == {"HTTP/1.0", "HTTP/1.1", "HTTP/0.9", "HTTP/2.0", "FOO/1.1"}

\* The words of a request line (str.split of the line).
RequestLines ==
    {<<>>}
    \cup {<<m>> : m \in Methods}
    \cup {<<m, p>> : m \in Methods, p \in Paths}
    \cup {<<m, p, v>> : m \in Methods, p \in Paths, v \in Versions}
    \cup {<<m, p, "x", v>> : m \in {"GET"}, p \in Paths, v \in {"HTTP/1.1", "FOO/1.1"}}

\* email.utils.formatdate(t, usegmt=True) for a time of t seconds, t < 60
Two(n) == IF n < 10 THEN "0" \o ToString(n) ELSE ToString(n)
date_time_string(t) == "Thu, 01 Jan 1970 00:00:" \o Two(t) \o " GMT"

\* email.utils.parsedate_to_datetime: the seconds of a well-formed date,
\* -1 for an ill-formed value (the ValueError the handler ignores)
parsedate_to_datetime(s) ==
    IF \E t \in 0..59 : date_time_string(t) = s
    THEN CHOOSE t \in 0..59 : date_time_string(t) = s
    ELSE -1

\* The If-Modified-Since values a client sends: "" is no such header.
ImsValues == {"", "yesterday"} \cup {date_time_string(t) : t \in 0..MaxTime}

\* A request: the request line, whether the line is longer than 65536
\* bytes, and the two conditional headers send_head() looks at.
Requests ==
    {[line |-> l, oversize |-> FALSE, ims |-> i, inm |-> FALSE] :
        l \in RequestLines, i \in ImsValues}
    \cup {[line |-> l, oversize |-> FALSE, ims |-> date_time_string(MaxTime), inm |-> TRUE] :
        l \in {<<m, p, "HTTP/1.1">> : m \in {"GET"}, p \in Paths}}
    \cup {[line |-> <<"GET", <<"index.html">>, "HTTP/1.1">>, oversize |-> TRUE,
           ims |-> "", inm |-> FALSE]}

\* ------------------------------------------------------------ file system
\* The served root (the working directory), read-only for the server.
\* mtime is in milliseconds; ioerr marks a file whose read() raises OSError.
File(data, mtime, readable, ioerr) ==
    [kind |-> "file", data |-> data, mtime |-> mtime, readable |-> readable,
     ioerr |-> ioerr, entries |-> <<>>]
Dir(entries) ==
    [kind |-> "dir", data |-> "", mtime |-> 0, readable |-> TRUE,
     ioerr |-> FALSE, entries |-> entries]

FS ==
    (<<>> :> Dir(<<"assets", "broken.bin", "index.html", "secret.txt">>))
    @@ (<<"index.html">> :> File("<h1>hi</h1>", 1500, TRUE, FALSE))
    @@ (<<"secret.txt">> :> File("top secret", 1500, FALSE, FALSE))
    @@ (<<"broken.bin">> :> File("0123456789abcdef", 1500, TRUE, TRUE))
    @@ (<<"assets">> :> Dir(<<"app.js", "img", "latest.js">>))
    @@ (<<"assets", "app.js">> :> File("console.log(1)", 500, TRUE, FALSE))
    @@ (<<"assets", "img">> :> Dir(<<>>))
    @@ (<<"assets", "latest.js">> :> File("console.log(1)", 500, TRUE, FALSE))

\* the entries that are symbolic links: assets/latest.js -> app.js
Symlinks == {<<"assets", "latest.js">>}

isdir(p) == p \in DOMAIN FS /\ FS[p].kind = "dir"
isfile(p) == p \in DOMAIN FS /\ FS[p].kind = "file"
islink(p) == p \in Symlinks
\* open(path, 'rb') succeeds
can_open(p) == isfile(p) /\ FS[p].readable

\* ------------------------------------------------------------------ paths
RECURSIVE Join(_, _)
Join(segs, sep) ==
    IF segs = <<>> THEN ""
    ELSE IF Len(segs) = 1 THEN segs[1]
    ELSE segs[1] \o sep \o Join(Tail(segs), sep)

\* the text of a request path
PathStr(p) == "/" \o Join(p, "/")

\* parse_request: a path that starts with "//" is reduced to a single "/"
RECURSIVE lstrip_slashes(_)
lstrip_slashes(p) ==
    IF Len(p) > 1 /\ p[1] = "" THEN lstrip_slashes(Tail(p)) ELSE p

\* posixpath.normpath of an absolute path: empty and "." components are
\* dropped, ".." removes the component before it (and is dropped at the root)
RECURSIVE normpath(_, _)
normpath(p, acc) ==
    IF p = <<>> THEN acc
    ELSE IF p[1] \in {"", "."} THEN normpath(Tail(p), acc)
    ELSE IF p[1] = ".." THEN
        normpath(Tail(p), IF acc = <<>> THEN acc ELSE Front(acc))
    ELSE normpath(Tail(p), Append(acc, p[1]))

\* SimpleHTTPRequestHandler.translate_path: the components under the served
\* root and whether the result ends with "/"
translate_path(p) ==
    [comps |-> SelectSeq(normpath(p, <<>>), LAMBDA w : w \notin {".", ".."}),
     slash |-> Last(p) = ""]

\* str.lower of an ASCII string
UpperCase == "ABCDEFGHIJKLMNOPQRSTUVWXYZ"
LowerCase == "abcdefghijklmnopqrstuvwxyz"
lower_char(ch) ==
    LET up == {k \in 1..Len(UpperCase) : SubSeq(UpperCase, k, k) = ch} IN
    IF up = {} THEN ch
    ELSE CHOOSE lo \in {SubSeq(LowerCase, k, k) : k \in up} : TRUE
RECURSIVE lower(_)
lower(s) ==
    IF s = "" THEN ""
    ELSE CHOOSE r \in {lower_char(ch) \o lower(rest) :
                          ch \in {SubSeq(s, 1, 1)}, rest \in {SubSeq(s, 2, Len(s))}} : TRUE

\* posixpath.splitext of a file name, the extension part: from the last "."
\* on, unless every character before that "." is a "." too (or there is none)
splitext(name) ==
    LET dots == {k \in 1..Len(name) : SubSeq(name, k, k) = "."} IN
    IF dots = {} THEN ""
    ELSE LET dotIndex == CHOOSE k \in dots : \A m \in dots : m <= k IN
         IF \E k \in 1..(dotIndex - 1) : SubSeq(name, k, k) # "."
         THEN SubSeq(name, dotIndex, Len(name))
         ELSE ""

\* SimpleHTTPRequestHandler.extensions_map
extensions_map ==
    (".gz" :> "application/gzip") @@ (".Z" :> "application/octet-stream")
    @@ (".bz2" :> "application/x-bzip2") @@ (".xz" :> "application/x-xz")

\* mimetypes.types_map, the rows of the extensions served files may carry,
\* as mimetypes.init() builds it on the host (the built-in table and the
\* system's mime.types, which gives .js as text/javascript)
types_map ==
    (".html" :> "text/html") @@ (".htm" :> "text/html")
    @@ (".js" :> "text/javascript") @@ (".mjs" :> "text/javascript")
    @@ (".txt" :> "text/plain") @@ (".css" :> "text/css")
    @@ (".json" :> "application/json") @@ (".wasm" :> "application/wasm")
    @@ (".png" :> "image/png") @@ (".svg" :> "image/svg+xml")
    @@ (".bin" :> "application/octet-stream")

\* SimpleHTTPRequestHandler.guess_type: the extension is looked up in
\* extensions_map as written, then in lower case, then by mimetypes; a name
\* nothing knows is application/octet-stream
guess_type(comps) ==
    LET type_of(ext, low) ==
            IF ext \in DOMAIN extensions_map THEN extensions_map[ext]
            ELSE IF low \in DOMAIN extensions_map THEN extensions_map[low]
            ELSE IF ext \in DOMAIN types_map THEN types_map[ext]
            ELSE IF low \in DOMAIN types_map THEN types_map[low]
            ELSE "application/octet-stream"
        exts == {splitext(name) : name \in {IF comps = <<>> THEN "" ELSE Last(comps)}}
    IN CHOOSE t \in UNION {{type_of(ext, low) : low \in {lower(ext)}} : ext \in exts} : TRUE

\* --------------------------------------------------------------- versions
\* The (major, minor) pair parse_request computes from the last word;
\* <<>> where it raises ValueError.
version_number(v) ==
    CASE v = "HTTP/1.0" -> <<1, 0>>
      [] v = "HTTP/1.1" -> <<1, 1>>
      [] v = "HTTP/0.9" -> <<0, 9>>
      [] v = "HTTP/2.0" -> <<2, 0>>
      [] OTHER -> <<>>
base_version_number(v) ==
    CASE v = "HTTP/1.0" -> "1.0"
      [] v = "HTTP/1.1" -> "1.1"
      [] v = "HTTP/0.9" -> "0.9"
      [] v = "HTTP/2.0" -> "2.0"
      [] OTHER -> ""
\* tuple comparison a >= b
VersionGE(a, b) == a[1] > b[1] \/ (a[1] = b[1] /\ a[2] >= b[2])

protocol_version == "HTTP/1.0"
default_request_version == "HTTP/0.9"

\* ------------------------------------------------- response lines (bytes)
\* What a handler writes is a sequence of items: the status line, header
\* lines, the blank line ending the header block, and body data.
StatusLine(code, message) == <<"status", code, message>>
HeaderLine(keyword, value) == <<"header", keyword, value>>
BlankLine == <<"blank", "", "">>
Body(data) == <<"body", data, "">>

\* The interpreter run() is started with is not fixed by the program.
PythonVersions == {"3.11.6", "3.11.7"}
\* sys.version.split()[0] of the running interpreter
sys_version == env.python
\* BaseHTTPRequestHandler.version_string: server_version + ' ' + sys_version,
\* server_version "SimpleHTTP/0.6", sys_version "Python/" + sys.version.split()[0]
version_string == "SimpleHTTP/0.6" \o " " \o "Python/" \o sys_version
\* date_time_string() of the current time
now_string == "now"

\* BaseHTTPRequestHandler.send_response_only
send_response_only(rv, code, message) ==
    IF rv # "HTTP/0.9" THEN <<StatusLine(code, message)>> ELSE <<>>

\* BaseHTTPRequestHandler.send_header: the line it appends to _headers_buffer
send_header(rv, keyword, value) ==
    IF rv # "HTTP/0.9" THEN <<HeaderLine(keyword, value)>> ELSE <<>>

\* BaseHTTPRequestHandler.send_response
send_response(rv, code, message) ==
    send_response_only(rv, code, message)
    \o send_header(rv, "Server", version_string)
    \o send_header(rv, "Date", now_string)

\* BaseHTTPRequestHandler.error_message_format filled in
error_body(code, message, explain) ==
    "<!DOCTYPE HTML>\n<html lang=\"en\">\n    <head>\n"
    \o "        <meta charset=\"utf-8\">\n"
    \o "        <title>Error response</title>\n    </head>\n    <body>\n"
    \o "        <h1>Error response</h1>\n"
    \o "        <p>Error code: " \o code \o "</p>\n"
    \o "        <p>Message: " \o message \o ".</p>\n"
    \o "        <p>Error code explanation: " \o code \o " - " \o explain \o ".</p>\n"
    \o "    </body>\n</html>\n"

\* HTTPStatus descriptions (the default "explain" of send_error)
explain_of(code) ==
    CASE code = "400" -> "Bad request syntax or unsupported method"
      [] code = "404" -> "Nothing matches the given URI"
      [] code = "414" -> "URI is too long"
      [] code = "501" -> "Server does not support this operation"
      [] code = "505" -> "Cannot fulfill request"
      [] OTHER -> "???"

\* The outcome of the inherited request handling up to the point where it
\* calls self.end_headers(): the handler's fields, the lines it has put in
\* _headers_buffer, and what it does once end_headers() has returned.
\*   responds: end_headers() is called (a response is produced)
\*   body:     the data written to wfile after end_headers()
\*   raises:   copying the body raises (read() fails)
\*   sent_error: the (code, message) of the send_error call, <<>> if none
Outcome(rv, command, close, responds, head, body, raises) ==
    [request_version |-> rv, command |-> command, close_connection |-> close,
     responds |-> responds, head |-> head, body |-> body, raises |-> raises,
     sent_error |-> <<>>]

\* BaseHTTPRequestHandler.send_error(code, message), with the handler's
\* request_version rv and command (None is ""); its "Connection: close"
\* header sets close_connection
send_error(rv, command, code, message) ==
    LET has_body == code \notin {"204", "205", "304"}
        content == error_body(code, message, explain_of(code))
    IN [Outcome(rv, command, TRUE, TRUE,
                send_response(rv, code, message)
                \o send_header(rv, "Connection", "close")
                \o (IF has_body
                    THEN send_header(rv, "Content-Type", "text/html;charset=utf-8")
                         \o send_header(rv, "Content-Length", ToString(Len(content)))
                    ELSE <<>>),
                IF command # "HEAD" /\ has_body THEN content ELSE "",
                FALSE)
        EXCEPT !.sent_error = <<code, message>>]

\* SimpleHTTPRequestHandler.list_directory
\* (the entries of os.listdir, sorted; a directory is shown and linked with a
\* trailing "/", a symbolic link is shown with a trailing "@"; the names of
\* FS are left as they are by urllib.parse.quote and html.escape)
listing_body(path, comps) ==
    LET title == "Directory listing for " \o PathStr(path)
        entries == FS[comps].entries
        fullname(name) == Append(comps, name)
        linkname(name) == IF isdir(fullname(name)) THEN name \o "/" ELSE name
        displayname(name) ==
            IF islink(fullname(name)) THEN name \o "@"
            ELSE IF isdir(fullname(name)) THEN name \o "/"
            ELSE name
        item(name) == "<li><a href=\"" \o linkname(name) \o "\">"
                      \o displayname(name) \o "</a></li>\n"
        RECURSIVE items(_)
        items(es) == IF es = <<>> THEN "" ELSE item(es[1]) \o items(Tail(es))
    IN "<!DOCTYPE HTML>\n<html lang=\"en\">\n<head>\n<meta charset=\"utf-8\">\n"
       \o "<title>" \o title \o "</title>\n</head>\n<body>\n<h1>" \o title \o "</h1>\n"
       \o "<hr>\n<ul>\n" \o items(entries) \o "</ul>\n<hr>\n</body>\n</html>\n"

list_directory(rv, command, close, path, comps) ==
    IF ~FS[comps].readable
    THEN send_error(rv, command, "404", "No permission to list directory")
    ELSE LET encoded == listing_body(path, comps) IN
         Outcome(rv, command, close, TRUE,
                 send_response(rv, "200", "OK")
                 \o send_header(rv, "Content-type", "text/html; charset=utf-8")
                 \o send_header(rv, "Content-Length", ToString(Len(encoded))),
                 IF command = "GET" THEN encoded ELSE "",
                 FALSE)

\* the first of index.html, index.htm that is a file in the directory
index_of(comps) ==
    IF isfile(Append(comps, "index.html")) THEN Append(comps, "index.html")
    ELSE IF isfile(Append(comps, "index.htm")) THEN Append(comps, "index.htm")
    ELSE <<>>

\* copyfile gone wrong: the file is read in text mode and a newline is added
copyfile_as_text(f) == f.data \o "\n"

\* SimpleHTTPRequestHandler.copyfile: the bytes do_GET copies from the file
copyfile(f) == f.data

\* SimpleHTTPRequestHandler.send_head for a file path (after the directory
\* cases), followed by do_GET's copyfile or do_HEAD's close
serve_file(rv, command, close, req, comps, slash) ==
    IF slash THEN send_error(rv, command, "404", "File not found")
    ELSE IF ~can_open(comps) THEN send_error(rv, command, "404", "File not found")
    ELSE
        LET f == FS[comps]
            ims == parsedate_to_datetime(req.ims)
            last_modif == f.mtime \div 1000
        IN IF req.ims # "" /\ ~req.inm /\ ims # -1 /\ last_modif <= ims
           THEN Outcome(rv, command, close, TRUE,
                        send_response(rv, "304", "Not Modified"), "", FALSE)
           ELSE Outcome(rv, command, close, TRUE,
                        send_response(rv, "200", "OK")
                        \o send_header(rv, "Content-type", guess_type(comps))
                        \o send_header(rv, "Content-Length", ToString(Len(f.data)))
                        \o send_header(rv, "Last-Modified", date_time_string(last_modif)),
                        IF command = "GET" /\ ~f.ioerr THEN copyfile(f) ELSE "",
                        command = "GET" /\ f.ioerr)

\* SimpleHTTPRequestHandler.send_head and do_GET / do_HEAD
send_head(rv, command, close, req, path) ==
    LET tp == translate_path(path) IN
    IF isdir(tp.comps) THEN
        IF Last(path) # "" THEN
            Outcome(rv, command, close, TRUE,
                    send_response(rv, "301", "Moved Permanently")
                    \o send_header(rv, "Location", PathStr(path) \o "/")
                    \o send_header(rv, "Content-Length", "0"),
                    "", FALSE)
        ELSE IF index_of(tp.comps) # <<>>
        THEN serve_file(rv, command, close, req, index_of(tp.comps), FALSE)
        ELSE list_directory(rv, command, close, path, tp.comps)
    ELSE serve_file(rv, command, close, req, tp.comps, tp.slash)

\* the text of a request line
RequestLineStr(words) ==
    Join([i \in 1..Len(words) |-> IF i = 2 THEN PathStr(words[i]) ELSE words[i]], " ")

\* BaseHTTPRequestHandler.parse_request followed by the dispatch of
\* handle_one_request to do_GET / do_HEAD (or 501)
parse_and_dispatch(req) ==
    LET words == req.line
        n == Len(words)
        version == words[n]
        vn == version_number(version)
        \* close_connection after the version checks: keep-alive needs
        \* protocol_version >= HTTP/1.1
        close == ~(n >= 3 /\ vn # <<>> /\ VersionGE(vn, <<1, 1>>)
                   /\ VersionGE(version_number(protocol_version), <<1, 1>>))
        rv == IF n >= 3 THEN version ELSE default_request_version
    IN
    IF n = 0 THEN Outcome(default_request_version, "", TRUE, FALSE, <<>>, "", FALSE)
    ELSE IF n >= 3 /\ vn = <<>> THEN
        send_error(default_request_version, "", "400",
                   "Bad request version ('" \o version \o "')")
    ELSE IF n >= 3 /\ VersionGE(vn, <<2, 0>>) THEN
        send_error(default_request_version, "", "505",
                   "Invalid HTTP version (" \o base_version_number(version) \o ")")
    ELSE IF ~(2 <= n /\ n <= 3) THEN
        send_error(rv, "", "400",
                   "Bad request syntax ('" \o RequestLineStr(words) \o "')")
    ELSE IF n = 2 /\ words[1] # "GET" THEN
        send_error(rv, "", "400",
                   "Bad HTTP/0.9 request type ('" \o words[1] \o "')")
    ELSE
        LET command == words[1]
            path == lstrip_slashes(words[2])
            cl == IF n = 2 THEN TRUE ELSE close
        IN IF command \notin {"GET", "HEAD"} THEN
               send_error(rv, command, "501",
                          "Unsupported method ('" \o command \o "')")
           ELSE send_head(rv, command, cl, req, path)

\* BaseHTTPRequestHandler.handle_one_request up to the call of end_headers()
handle_one_request(req) ==
    IF req.oversize
    THEN send_error("", "", "414", "Request-URI Too Long")
    ELSE parse_and_dispatch(req)

\* --------------------------------------------------- CORSHTTPServer's hook
\* the hook with its last header forgotten
end_headers_body_short == <<"ACAO", "COOP", "super">>
\* the hook with two of its headers swapped
end_headers_body_swapped == <<"COOP", "ACAO", "COEP", "super">>
\* the hook calling the inherited end_headers() first
end_headers_body_super_first == <<"super", "ACAO", "COOP", "COEP">>

\* The statements of CORSHTTPServer.end_headers, in program order.
end_headers_body == <<"ACAO", "COOP", "COEP", "super">>

\* the (keyword, value) of each self.send_header statement of the hook
hook_header(stmt) ==
    CASE stmt = "ACAO" -> <<"Access-Control-Allow-Origin", "*">>
      [] stmt = "COOP" -> <<"Cross-Origin-Opener-Policy", "same-origin">>
      [] stmt = "COEP" -> <<"Cross-Origin-Embedder-Policy", "require-corp">>

\* ------------------------------------------------------------ environment
\* What run() finds at start: cert.pem, key.pem, and whether port 8080 can
\* be bound.
Environments ==
    [cert : {"ok", "missing"}, key : {"ok", "missing", "mismatch"}, port : BOOLEAN,
     python : PythonVersions]

\* How a client behaves: it completes the TLS handshake and sends a request,
\* fails the handshake, never finishes the handshake, or finishes it and
\* never sends a request.
ClientKinds == {"good", "badtls", "stall_tls", "stall_http"}

\* The requests clients send to the running server in the whole-server
\* specification (the handler specification draws from all of Requests).
Plain(line) == [line |-> line, oversize |-> FALSE, ims |-> "", inm |-> FALSE]
ServedRequests ==
    { Plain(<<"GET", <<"index.html">>, "HTTP/1.1">>),
      Plain(<<"GET", <<"assets", "app.js">>, "HTTP/1.0">>),
      Plain(<<"GET", <<"missing.txt">>, "HTTP/1.1">>),
      Plain(<<"GET", <<"secret.txt">>, "HTTP/1.1">>),
      Plain(<<"GET", <<"..", "missing.txt">>, "HTTP/1.1">>),
      Plain(<<"GET", <<"broken.bin">>, "HTTP/1.1">>) }

vars == <<env, pc, error, sock, wrapped, backlog, cur, conn, tls, kind, rfile,
          wfile, handler, failures>>

NoHandler ==
    [pc |-> "none", ip |-> 1, request_version |-> "", command |-> "",
     close_connection |-> TRUE, headers_buffer |-> <<>>, body |-> "",
     raises |-> FALSE]

\* a connection whose client waits for the server
InFlight(c) == conn[c] \in {"queued", "handshake", "open"}

Init ==
    /\ env \in Environments
    /\ pc = "start"
    /\ error = ""
    /\ sock = "none"
    /\ wrapped = FALSE
    /\ backlog = <<>>
    /\ cur = None
    /\ conn = [c \in Clients |-> "idle"]
    /\ tls = [c \in Clients |-> "none"]
    /\ kind = [c \in Clients |-> "good"]
    /\ rfile = [c \in Clients |-> <<>>]
    /\ wfile = [c \in Clients |-> <<>>]
    /\ handler = [c \in Clients |-> NoHandler]
    /\ failures = "none"

\* --------------------------------------------------------------- run()
\* httpd = server_class(server_address, handler_class): TCPServer.__init__
\* binds the socket and starts listening (server_bind, server_activate),
\* or closes it and raises OSError
Construct ==
    /\ pc = "start"
    /\ IF env.port
       THEN /\ sock' = "listening"
            /\ pc' = "constructed"
            /\ error' = error
       ELSE /\ sock' = "closed"
            /\ pc' = "raised"
            /\ error' = "OSError"
    /\ UNCHANGED <<failures, env, wrapped, backlog, cur, conn, kind, rfile, wfile, handler, tls>>

\* ssl_context = ssl.SSLContext(ssl.PROTOCOL_TLS_SERVER)
CreateContext ==
    /\ pc = "constructed"
    /\ pc' = "context"
    /\ UNCHANGED <<failures, env, error, sock, wrapped, backlog, cur, conn, kind, rfile, wfile, handler, tls>>

\* load_cert_chain that does not look at the files
load_cert_chain_unchecked == ""

\* the exception of ssl_context.load_cert_chain('cert.pem', 'key.pem'), ""
\* when it loads
load_cert_chain ==
    IF env.cert = "missing" \/ env.key = "missing" THEN "FileNotFoundError"
    ELSE IF env.key = "mismatch" THEN "SSLError"
    ELSE ""

LoadCertChain ==
    /\ pc = "context"
    /\ error' = load_cert_chain
    /\ pc' = IF load_cert_chain = "" THEN "loaded" ELSE "raised"
    /\ UNCHANGED <<failures, env, sock, wrapped, backlog, cur, conn, kind, rfile, wfile, handler, tls>>

\* run() without the wrap_socket line: httpd.socket stays a plain socket
wrap_socket_skipped == FALSE

\* httpd.socket = ssl_context.wrap_socket(httpd.socket, server_side=True):
\* whether httpd.socket is an SSLSocket afterwards
wrap_socket == TRUE

WrapSocket ==
    /\ pc = "loaded"
    /\ wrapped' = wrap_socket
    /\ pc' = "wrapped"
    /\ UNCHANGED <<failures, env, error, sock, backlog, cur, conn, kind, rfile, wfile, handler, tls>>

\* print(...); httpd.serve_forever()
ServeForever ==
    /\ pc = "wrapped"
    /\ pc' = "serving"
    /\ UNCHANGED <<failures, env, error, sock, wrapped, backlog, cur, conn, kind, rfile, wfile, handler, tls>>

\* the uncaught exception ends the process: its sockets are closed and the
\* connections it held are reset
Exit ==
    /\ pc = "raised"
    /\ pc' = "exited"
    /\ sock' = "closed"
    /\ backlog' = <<>>
    /\ cur' = None
    /\ conn' = [c \in Clients |-> IF InFlight(c) THEN "reset" ELSE conn[c]]
    /\ UNCHANGED <<failures, env, error, wrapped, kind, rfile, wfile, handler, tls>>

\* ------------------------------------------------------------- clients
\* A client connects: the kernel completes the TCP handshake of a listening
\* socket and queues the connection, whether or not the process accepts yet.
ClientConnect(c, k) ==
    /\ sock = "listening"
    /\ conn[c] = "idle"
    /\ conn' = [conn EXCEPT ![c] = "queued"]
    /\ kind' = [kind EXCEPT ![c] = k]
    /\ backlog' = Append(backlog, c)
    /\ UNCHANGED <<failures, env, pc, error, sock, wrapped, cur, rfile, wfile, handler, tls>>

\* A client whose connection is established sends its request, one of reqs.
ClientSend(c, reqs) ==
    /\ conn[c] = "open"
    /\ kind[c] = "good"
    /\ rfile[c] = <<>>
    /\ \E r \in reqs : rfile' = [rfile EXCEPT ![c] = <<r>>]
    /\ UNCHANGED <<failures, env, pc, error, sock, wrapped, backlog, cur, conn, kind, wfile, handler, tls>>

\* ------------------------------------------------------ serve_forever()
\* a threading server: accept() does not wait for the current connection
can_accept_threaded == TRUE

\* HTTPServer handles a request inside the loop that accepted it: the loop
\* comes back to accept() only when no connection is being handled.
can_accept == cur = None

\* BaseServer._handle_request_noblock: get_request() is socket.accept().
\* SSLSocket.accept() wraps the new socket and runs the handshake before it
\* returns; a plain socket goes straight to the handler.
Accept ==
    /\ pc = "serving"
    /\ can_accept
    /\ backlog # <<>>
    /\ LET c == Head(backlog) IN
        /\ backlog' = Tail(backlog)
        /\ cur' = c
        /\ IF wrapped
           THEN /\ conn' = [conn EXCEPT ![c] = "handshake"]
                /\ tls' = [tls EXCEPT ![c] = "pending"]
                /\ handler' = handler
           ELSE /\ conn' = [conn EXCEPT ![c] = "open"]
                /\ tls' = tls
                /\ handler' = [handler EXCEPT ![c] = [NoHandler EXCEPT !.pc = "read"]]
    /\ UNCHANGED <<failures, env, pc, error, sock, wrapped, kind, rfile, wfile>>

\* do_handshake() succeeds: accept() returns and the handler is constructed;
\* it blocks in rfile.readline()
HandshakeDone(c) ==
    /\ pc = "serving"
    /\ conn[c] = "handshake"
    /\ kind[c] \in {"good", "stall_http"}
    /\ conn' = [conn EXCEPT ![c] = "open"]
    /\ tls' = [tls EXCEPT ![c] = "done"]
    /\ handler' = [handler EXCEPT ![c] = [NoHandler EXCEPT !.pc = "read"]]
    /\ UNCHANGED <<failures, env, pc, error, sock, wrapped, backlog, cur, kind, rfile, wfile>>

\* the OSError of get_request() leaving serve_forever()
handshake_error_propagates == FALSE

\* _handle_request_noblock catches the OSError of get_request() and returns
handshake_error_caught == TRUE

\* do_handshake() raises ssl.SSLError (an OSError): SSLSocket._create closes
\* the new socket and the error leaves accept()
HandshakeFail(c) ==
    /\ pc = "serving"
    /\ conn[c] = "handshake"
    /\ kind[c] = "badtls"
    /\ conn' = [conn EXCEPT ![c] = "closed"]
    /\ tls' = [tls EXCEPT ![c] = "failed"]
    /\ cur' = None
    /\ IF handshake_error_caught
       THEN UNCHANGED <<pc, error>>
       ELSE pc' = "raised" /\ error' = "SSLError"
    /\ UNCHANGED <<failures, env, sock, wrapped, backlog, kind, rfile, wfile, handler>>

\* ------------------------------------------------------------ the handler
\* every handler writing to one shared stream (the first client's)
OutShared(c) == CHOOSE d \in Clients : \A e \in Clients : d <= e

\* the connection a handler object writes to: its own (self.wfile)
Out(c) == c

\* handle_one_request: read the request, parse it, run do_GET / do_HEAD or
\* an error reply, up to the call of self.end_headers()
HandleRequest(c) ==
    /\ handler[c].pc = "read"
    /\ rfile[c] # <<>>
    /\ \E o \in {handle_one_request(rfile[c][1])} :
        handler' = [handler EXCEPT ![c] =
            [pc |-> IF o.responds THEN "end_headers" ELSE "finish",
             ip |-> 1,
             request_version |-> o.request_version,
             command |-> o.command,
             close_connection |-> o.close_connection,
             headers_buffer |-> o.head,
             body |-> o.body,
             raises |-> o.raises]]
    /\ UNCHANGED <<failures, env, pc, error, sock, wrapped, backlog, cur, conn, kind, rfile, wfile, tls>>

\* the pc of a handler that has run statement ip of the hook
AfterStatement(h) ==
    IF h.ip = Len(end_headers_body)
    THEN [h EXCEPT !.pc = "body"]
    ELSE [h EXCEPT !.ip = h.ip + 1]

\* CORSHTTPServer.end_headers: one self.send_header(...) statement
SendInjectedHeader(c) ==
    /\ handler[c].pc = "end_headers"
    /\ end_headers_body[handler[c].ip] # "super"
    /\ LET h == handler[c]
           kv == hook_header(end_headers_body[h.ip])
       IN handler' = [handler EXCEPT ![c] =
            AfterStatement([h EXCEPT !.headers_buffer =
                h.headers_buffer \o send_header(h.request_version, kv[1], kv[2])])]
    /\ UNCHANGED <<failures, env, pc, error, sock, wrapped, backlog, cur, conn, kind, rfile, wfile, tls>>

\* CORSHTTPServer.end_headers: super().end_headers(), which appends the
\* blank line and flushes _headers_buffer to wfile (nothing for HTTP/0.9)
SuperEndHeaders(c) ==
    /\ handler[c].pc = "end_headers"
    /\ end_headers_body[handler[c].ip] = "super"
    /\ LET h == handler[c] IN
        IF h.request_version # "HTTP/0.9"
        THEN /\ wfile' = [wfile EXCEPT ![Out(c)] =
                    wfile[Out(c)] \o h.headers_buffer \o <<BlankLine>>]
             /\ handler' = [handler EXCEPT ![c] =
                    AfterStatement([h EXCEPT !.headers_buffer = <<>>])]
        ELSE /\ wfile' = wfile
             /\ handler' = [handler EXCEPT ![c] = AfterStatement(h)]
    /\ UNCHANGED <<failures, env, pc, error, sock, wrapped, backlog, cur, conn, kind, rfile, tls>>

\* after end_headers(): send_error writes the error page, do_GET copies the
\* file (copyfile); a read that fails raises OSError out of the handler
WriteBody(c) ==
    /\ handler[c].pc = "body"
    /\ LET h == handler[c] IN
        /\ wfile' = IF h.body # "" /\ ~h.raises
                    THEN [wfile EXCEPT ![Out(c)] = Append(wfile[Out(c)], Body(h.body))]
                    ELSE wfile
        /\ handler' = [handler EXCEPT ![c] = [h EXCEPT !.pc = "finish"]]
    /\ UNCHANGED <<failures, env, pc, error, sock, wrapped, backlog, cur, conn, kind, rfile, tls>>

\* the file a request's path resolves to (send_head's translate_path)
TargetOf(req) == translate_path(lstrip_slashes(req.line[2]))
\* do_GET's copyfile raises OSError: the request was parsed, its command is
\* GET, send_head opened the file and returned it (no 304), and read() fails
FailsToRead(req) == \E o \in {handle_one_request(req)} : o.raises
\* a request whose file is not served: send_head answered it with
\* send_error(404, "File not found") (open() raised OSError, or the path
\* ends in "/"), or copyfile raised while reading it
FailingRequest(req) ==
    \E o \in {handle_one_request(req)} :
        \/ o.raises
        \/ o.sent_error = <<"404", "File not found">>

\* the handler's exception leaving serve_forever()
handler_error_propagates == FALSE

\* process_request catches an Exception of the handler (handle_error) and
\* goes on to shutdown_request
handler_error_caught == TRUE

\* the end of handle(): with close_connection the handler returns and
\* shutdown_request closes the connection; the loop is free again.
\* Otherwise handle() reads the next request of the connection.
Finish(c) ==
    /\ handler[c].pc = "finish"
    /\ LET h == handler[c] IN
        IF h.raises \/ h.close_connection
        THEN /\ handler' = [handler EXCEPT ![c] = [h EXCEPT !.pc = "done"]]
             /\ conn' = [conn EXCEPT ![c] = "closed"]
             /\ cur' = IF cur = c THEN None ELSE cur
             /\ rfile' = rfile
             /\ IF h.raises /\ ~handler_error_caught
                THEN pc' = "raised" /\ error' = "OSError"
                ELSE UNCHANGED <<pc, error>>
        ELSE /\ handler' = [handler EXCEPT ![c] = [h EXCEPT !.pc = "read"]]
             /\ rfile' = [rfile EXCEPT ![c] = <<>>]
             /\ UNCHANGED <<conn, cur, pc, error>>
    /\ failures' = IF ~FailingRequest(rfile[c][1]) THEN failures
                   ELSE IF failures = "none" THEN "one" ELSE "many"
    /\ UNCHANGED <<env, sock, wrapped, backlog, kind, wfile, tls>>

HandlerStep(c) ==
    \/ HandleRequest(c)
    \/ SendInjectedHeader(c)
    \/ SuperEndHeaders(c)
    \/ WriteBody(c)
    \/ Finish(c)

\* ------------------------------------------------------- specifications
\* The whole server: start-up, clients, the serving loop.
Next ==
    \/ Construct
    \/ CreateContext
    \/ LoadCertChain
    \/ WrapSocket
    \/ ServeForever
    \/ Exit
    \/ \E c \in Clients, k \in ClientKinds : ClientConnect(c, k)
    \/ \E c \in Clients : ClientSend(c, ServedRequests)
    \/ Accept
    \/ \E c \in Clients : HandshakeDone(c)
    \/ \E c \in Clients : HandshakeFail(c)
    \/ \E c \in Clients : HandlerStep(c)

Spec == Init /\ [][Next]_vars

\* One handler on an established connection of the serving server, given
\* any request of Requests.
InitHandler ==
    /\ env \in {e \in Environments : e.cert = "ok" /\ e.key = "ok" /\ e.port}
    /\ pc = "serving"
    /\ error = ""
    /\ sock = "listening"
    /\ wrapped = TRUE
    /\ backlog = <<>>
    /\ cur = 1
    /\ conn = [c \in Clients |-> IF c = 1 THEN "open" ELSE "idle"]
    /\ tls = [c \in Clients |-> IF c = 1 THEN "done" ELSE "none"]
    /\ kind = [c \in Clients |-> "good"]
    /\ rfile = [c \in Clients |-> <<>>]
    /\ wfile = [c \in Clients |-> <<>>]
    /\ handler = [c \in Clients |-> IF c = 1 THEN [NoHandler EXCEPT !.pc = "read"] ELSE NoHandler]
    /\ failures = "none"

NextHandler ==
    \/ ClientSend(1, Requests)
    \/ HandleRequest(1)
    \/ SendInjectedHeader(1)
    \/ SuperEndHeaders(1)
    \/ WriteBody(1)
    \/ Finish(1)

SpecHandler == InitHandler /\ [][NextHandler]_vars

\* The whole server under the scheduling the process has.  run() and the
\* serving loop are one thread: whichever step it is at (start-up, accept,
\* handshake, handler) is taken when it can be; and a client that behaves
\* ("good") sends its request once its connection is established.
ServerStep ==
    \/ Construct \/ CreateContext \/ LoadCertChain \/ WrapSocket \/ ServeForever \/ Exit
    \/ Accept
    \/ \E c \in Clients : HandshakeDone(c) \/ HandshakeFail(c) \/ HandlerStep(c)
GoodClientStep == \E c \in Clients : ClientSend(c, ServedRequests)

Fairness == WF_vars(ServerStep) /\ WF_vars(GoodClientStep)

SpecLive == Spec /\ Fairness

\* The server with clients that come back.  Every client completes the
\* handshake and sends one request of ProbeRequests; once its connection is
\* closed it may open a new one, so that a run holds any number of requests,
\* failing or not, one after the other.  The last request is refused by
\* parse_request (505) before any file is looked at.
ProbeRequests ==
    { Plain(<<"GET", <<"index.html">>, "HTTP/1.1">>),
      Plain(<<"GET", <<"missing.txt">>, "HTTP/1.1">>),
      Plain(<<"GET", <<"secret.txt">>, "HTTP/1.1">>),
      Plain(<<"GET", <<"..", "missing.txt">>, "HTTP/1.1">>),
      Plain(<<"GET", <<"broken.bin">>, "HTTP/1.1">>),
      Plain(<<"GET", <<"missing.txt">>>>),
      Plain(<<"GET", <<"broken.bin">>>>),
      Plain(<<"GET", <<"missing.txt">>, "HTTP/2.0">>) }

\* a client whose connection the server closed is ready to connect again
ClientReconnect(c) ==
    /\ conn[c] = "closed"
    /\ conn' = [conn EXCEPT ![c] = "idle"]
    /\ tls' = [tls EXCEPT ![c] = "none"]
    /\ rfile' = [rfile EXCEPT ![c] = <<>>]
    /\ wfile' = [wfile EXCEPT ![c] = <<>>]
    /\ handler' = [handler EXCEPT ![c] = NoHandler]
    /\ UNCHANGED <<failures, env, pc, error, sock, wrapped, backlog, cur, kind>>

NextServe ==
    \/ Construct
    \/ CreateContext
    \/ LoadCertChain
    \/ WrapSocket
    \/ ServeForever
    \/ Exit
    \/ \E c \in Clients : ClientConnect(c, "good")
    \/ \E c \in Clients : ClientSend(c, ProbeRequests)
    \/ \E c \in Clients : ClientReconnect(c)
    \/ Accept
    \/ \E c \in Clients : HandshakeDone(c)
    \/ \E c \in Clients : HandlerStep(c)

ProbeStep == \E c \in Clients : ClientSend(c, ProbeRequests)

SpecServe == Init /\ [][NextServe]_vars /\ WF_vars(ServerStep) /\ WF_vars(ProbeStep)

\* ================================================================ claims
\* the three header lines of the hook, as the specification gives them
Injected ==
    << HeaderLine("Access-Control-Allow-Origin", "*"),
       HeaderLine("Cross-Origin-Opener-Policy", "same-origin"),
       HeaderLine("Cross-Origin-Embedder-Policy", "require-corp") >>

LineCount(w, l) == Cardinality({i \in 1..Len(w) : w[i] = l})
KeywordCount(w, k) == Cardinality({i \in 1..Len(w) : w[i][1] = "header" /\ w[i][2] = k})
ExactlyOnceEach(w) ==
    \A i \in 1..3 : LineCount(w, Injected[i]) = 1 /\ KeywordCount(w, Injected[i][2]) = 1
HasStatusLine(w) == w # <<>> /\ w[1][1] = "status"
StatusOf(w) == IF HasStatusLine(w) THEN w[1][2] ELSE ""
BodyOf(w) == IF w # <<>> /\ Last(w)[1] = "body" THEN Last(w)[2] ELSE ""
\* the position of the blank line that ends the header block, 0 if none
BlankAt(w) ==
    IF \E i \in 1..Len(w) : w[i] = BlankLine
    THEN CHOOSE i \in 1..Len(w) : w[i] = BlankLine
    ELSE 0
\* the handler of connection c has returned
Answered(c) == handler[c].pc = "done"
RequestOf(c) == rfile[c][1]

\* the full responses to GET /index.html and GET /assets/app.js
ExpectedIndex ==
    << StatusLine("200", "OK"),
       HeaderLine("Server", "SimpleHTTP/0.6 Python/" \o env.python),
       HeaderLine("Date", "now"),
       HeaderLine("Content-type", "text/html"),
       HeaderLine("Content-Length", "11"),
       HeaderLine("Last-Modified", "Thu, 01 Jan 1970 00:00:01 GMT"),
       HeaderLine("Access-Control-Allow-Origin", "*"),
       HeaderLine("Cross-Origin-Opener-Policy", "same-origin"),
       HeaderLine("Cross-Origin-Embedder-Policy", "require-corp"),
       BlankLine,
       Body("<h1>hi</h1>") >>
ExpectedApp ==
    << StatusLine("200", "OK"),
       HeaderLine("Server", "SimpleHTTP/0.6 Python/" \o env.python),
       HeaderLine("Date", "now"),
       HeaderLine("Content-type", "text/javascript"),
       HeaderLine("Content-Length", "14"),
       HeaderLine("Last-Modified", "Thu, 01 Jan 1970 00:00:00 GMT"),
       HeaderLine("Access-Control-Allow-Origin", "*"),
       HeaderLine("Cross-Origin-Opener-Policy", "same-origin"),
       HeaderLine("Cross-Origin-Embedder-Policy", "require-corp"),
       BlankLine,
       Body("console.log(1)") >>
ExpectedFor(req) ==
    IF req = Plain(<<"GET", <<"index.html">>, "HTTP/1.1">>) THEN ExpectedIndex
    ELSE IF req = Plain(<<"GET", <<"assets", "app.js">>, "HTTP/1.0">>) THEN ExpectedApp
    ELSE <<>>

\* ---------------------------------------------------------------- C1
\* C1 as stated: every response the server emits, whatever the method, path
\* or status, holds each of the three injected header lines exactly once.
C1_EveryResponse ==
    \A c \in Clients :
        (Answered(c) /\ wfile[c] # <<>>) => ExactlyOnceEach(wfile[c])

\* a request the handler answers with a status line and a header block: an
\* over-long request line, or a line of three or more words whose last word
\* is HTTP/1.0 or HTTP/1.1
AnsweredWithHeaders(req) ==
    req.oversize \/ (Len(req.line) >= 3 /\ Last(req.line) \in {"HTTP/1.0", "HTTP/1.1"})

\* C1 amended: every response that has a status line and a header block
\* holds each of the three injected header lines exactly once; the other
\* responses (HTTP/0.9 requests and request lines rejected before a version
\* is recorded) are the body alone, with no header line at all.
C1_ResponsesWithHeaderBlock ==
    \A c \in Clients :
        Answered(c) =>
            IF AnsweredWithHeaders(RequestOf(c))
            THEN HasStatusLine(wfile[c]) /\ ExactlyOnceEach(wfile[c])
            ELSE \A i \in 1..Len(wfile[c]) : wfile[c][i][1] = "body"

C1_Witness ==
    \E c \in Clients :
        /\ Answered(c)
        /\ StatusOf(wfile[c]) = "404"
        /\ ExactlyOnceEach(wfile[c])

\* ---------------------------------------------------------------- C2
\* C2 as stated: with cert.pem missing, the socket is never listening.
C2_NeverListening == env.cert = "missing" => sock # "listening"

\* C2 amended: with cert.pem missing, run() dies of a start-up error (of
\* load_cert_chain, or of the constructor when the port cannot be bound) and
\* never reaches the serving loop: no connection is accepted, handshaken or
\* answered.  The socket is already bound and listening when load_cert_chain
\* raises, and is closed when the process exits.
C2_NeverServing ==
    env.cert = "missing" =>
        /\ pc \in {"start", "constructed", "context", "raised", "exited"}
        /\ ~wrapped
        /\ cur = None
        /\ \A c \in Clients :
            /\ conn[c] \in {"idle", "queued", "reset"}
            /\ tls[c] = "none"
            /\ handler[c].pc = "none"
            /\ wfile[c] = <<>>
        /\ (pc \in {"raised", "exited"} => error \in {"FileNotFoundError", "OSError"})
        /\ (pc = "raised" /\ error = "FileNotFoundError" => sock = "listening")
        /\ (pc = "exited" => sock = "closed")

C2_Witness ==
    /\ env.cert = "missing"
    /\ pc = "raised"
    /\ error = "FileNotFoundError"
    /\ sock = "listening"
    /\ \E c \in Clients : conn[c] = "queued"

\* ---------------------------------------------------------------- C3
\* C3: a connection has a handler (which reads and parses the request), or
\* anything written to it, only after its TLS handshake has completed, and
\* the loop serves only over the wrapped socket.
C3_HandshakeBeforeHandler ==
    /\ pc = "serving" => wrapped
    /\ \A c \in Clients :
        /\ (handler[c].pc # "none" \/ wfile[c] # <<>> \/ rfile[c] # <<>>) =>
                tls[c] = "done"
        /\ conn[c] = "open" => tls[c] = "done"

C3_Witness ==
    \E c \in Clients :
        tls[c] = "done" /\ handler[c].pc = "body" /\ HasStatusLine(wfile[c])

\* ---------------------------------------------------------------- C4
\* the connection the loop is busy with will never move: its client never
\* finishes the handshake, or never sends a request
Stalled(c) ==
    \/ conn[c] = "handshake" /\ kind[c] = "stall_tls"
    \/ conn[c] = "open" /\ kind[c] = "stall_http" /\ handler[c].pc = "read"
\* the loop is stuck on a stalled connection
LoopStalled == \E d \in Clients : cur = d /\ Stalled(d)

\* C4: a failed handshake closes that connection and nothing else (the
\* loop stays in serve_forever, the socket listens, the other connections
\* and the queue are untouched, the loop is free for the next accept); and
\* every well-behaved connection waiting in the queue after a failure is
\* accepted and answered, unless the loop gets stuck on a stalled connection.
C4_HandshakeFailureIsolated ==
    /\ [][\A c \in Clients :
            (tls[c] = "pending" /\ tls'[c] = "failed") =>
                /\ conn'[c] = "closed"
                /\ pc' = "serving" /\ error' = "" /\ sock' = "listening"
                /\ cur' = None
                /\ backlog' = backlog
                /\ wfile' = wfile
                /\ \A d \in Clients \ {c} : conn'[d] = conn[d] /\ tls'[d] = tls[d]
         ]_vars
    /\ \A c \in Clients :
            ((\E d \in Clients : tls[d] = "failed") /\ conn[c] = "queued" /\ kind[c] = "good")
                ~> ((Answered(c) /\ HasStatusLine(wfile[c])) \/ LoopStalled)

C4_Witness ==
    \E c, d \in Clients :
        /\ tls[c] = "failed" /\ conn[c] = "closed"
        /\ cur = d /\ tls[d] = "done" /\ handler[d].pc = "finish"
        /\ StatusOf(wfile[d]) = "200"
        /\ pc = "serving"

FileOf(req) == FS[TargetOf(req).comps]
\* the request carries an If-Modified-Since date (and no If-None-Match) that
\* is not before the file's modification time
NotModifiedSince(req) ==
    /\ req.ims # "" /\ ~req.inm
    /\ parsedate_to_datetime(req.ims) # -1
    /\ FileOf(req).mtime \div 1000 <= parsedate_to_datetime(req.ims)

\* a request line "GET <path> HTTP/1.0" or "GET <path> HTTP/1.1"
IsGet1x(req) ==
    /\ ~req.oversize /\ Len(req.line) = 3
    /\ req.line[1] = "GET" /\ req.line[3] \in {"HTTP/1.0", "HTTP/1.1"}

\* what connection c received is the right answer to its request; o is
\* what the handler did with it (o.raises is FailsToRead(req); o.raises or
\* the "File not found" of o.sent_error is FailingRequest(req))
CorrectAnswer(req, o, w) ==
    IF o.raises THEN
        \* the read failed: the status line and the headers were sent
        \* before it; an HTTP/0.9 request has none, so nothing at all is sent
        IF IsGet1x(req)
        THEN /\ StatusOf(w) = "200" /\ ExactlyOnceEach(w)
             /\ Last(w) = BlankLine
        ELSE w = <<>>
    ELSE IF o.sent_error = <<"404", "File not found">> THEN
        IF AnsweredWithHeaders(req)
        THEN /\ StatusOf(w) = "404" /\ ExactlyOnceEach(w)
             /\ req.line[1] = "GET" => BodyOf(w) # ""
        ELSE IF req.line[1] = "GET" THEN Len(w) = 1 /\ BodyOf(w) # ""
        ELSE w = <<>>
    ELSE IF ExpectedFor(req) # <<>> THEN w = ExpectedFor(req)
    ELSE IF AnsweredWithHeaders(req) THEN
        \* any other answer with a header block
        /\ HasStatusLine(w) /\ StatusOf(w) \notin {"403", "500"}
        /\ ExactlyOnceEach(w)
    ELSE \* no HTTP/1.x request line, or a request line refused by
         \* parse_request: the body alone, which is the error page
        /\ \A k \in 1..Len(w) : w[k][1] = "body"
        /\ o.sent_error # <<>> => Len(w) = 1 /\ BodyOf(w) # ""

CorrectlyAnswered(c) ==
    \E o \in {handle_one_request(RequestOf(c))} :
        CorrectAnswer(RequestOf(c), o, wfile[c])

NamesFile(req) ==
    /\ ~req.oversize
    /\ Len(req.line) >= 2
    /\ ~TargetOf(req).slash
    /\ can_open(TargetOf(req).comps)
    /\ ~FS[TargetOf(req).comps].ioerr

\* C6 as stated: every request whose path names an existing readable file
\* is answered 200 with the file's bytes as the body.
C6_EveryRequest ==
    \A c \in Clients :
        (Answered(c) /\ NamesFile(RequestOf(c))) =>
            StatusOf(wfile[c]) = "200" /\ BodyOf(wfile[c]) = FileOf(RequestOf(c)).data

\* C6 amended: every GET request with a request line "GET <path> HTTP/1.0"
\* or "... HTTP/1.1" whose path names an existing readable regular file, and
\* whose If-Modified-Since condition does not make it a 304, is answered 200
\* with exactly the file's bytes as the body.
C6_GetOfFile ==
    \A c \in Clients :
        (/\ Answered(c)
         /\ NamesFile(RequestOf(c))
         /\ Len(RequestOf(c).line) = 3
         /\ RequestOf(c).line[1] = "GET"
         /\ RequestOf(c).line[3] \in {"HTTP/1.0", "HTTP/1.1"}
         /\ ~NotModifiedSince(RequestOf(c)))
        => (StatusOf(wfile[c]) = "200" /\ BodyOf(wfile[c]) = FileOf(RequestOf(c)).data)

C6_Witness ==
    \E c \in Clients :
        /\ Answered(c)
        /\ RequestOf(c).line = <<"GET", <<"..", "index.html">>, "HTTP/1.1">>
        /\ StatusOf(wfile[c]) = "200"
        /\ BodyOf(wfile[c]) = "<h1>hi</h1>"

\* ---------------------------------------------------------------- C7
\* C7: whatever the interleaving, what a client that asked for index.html or
\* for assets/app.js has received is at every moment a prefix of the response
\* to its own request, and the whole of it once the request is answered; a
\* connection that has sent nothing has received nothing.
C7_OwnResponseOnly ==
    \A c \in Clients :
        /\ rfile[c] = <<>> => wfile[c] = <<>>
        /\ (rfile[c] # <<>> /\ ExpectedFor(RequestOf(c)) # <<>>) =>
            /\ IsPrefix(wfile[c], ExpectedFor(RequestOf(c)))
            /\ Answered(c) => wfile[c] = ExpectedFor(RequestOf(c))

C7_Witness ==
    \E c, d \in Clients :
        /\ c # d
        /\ conn[c] = "queued" /\ kind[c] = "good"
        /\ conn[d] = "open" /\ handler[d].pc = "finish" /\ wfile[d] = ExpectedApp

\* ---------------------------------------------------------------- C8
\* the three injected lines stand right before the blank line of w, after
\* the lines the inherited behaviour set for the request, which are all
\* there, unchanged and in their order
PlacedAfterBaseHeaders(w, req) ==
    LET n == BlankAt(w) IN
    /\ n >= 5
    /\ SubSeq(w, n - 3, n - 1) = Injected
    /\ SubSeq(w, 1, n - 4) = handle_one_request(req).head
    /\ \A i \in 1..(n - 4) : \A j \in 1..3 : w[i][2] # Injected[j][2]

\* C8 as stated: in every response the three injected lines are placed
\* after the header lines the inherited behaviour set and before the blank
\* line, in order, and no inherited header line is removed or changed.
C8_EveryResponsePlaced ==
    \A c \in Clients :
        (Answered(c) /\ wfile[c] # <<>>) => PlacedAfterBaseHeaders(wfile[c], RequestOf(c))

\* C8 amended: in every response that has a header block (the answer to an
\* over-long request line or to a request line ending in HTTP/1.0 or
\* HTTP/1.1), as soon as the block is written it is the lines the inherited
\* behaviour set for the request, unchanged and in their order, then the
\* three injected lines in the order Access-Control-Allow-Origin,
\* Cross-Origin-Opener-Policy, Cross-Origin-Embedder-Policy, then the blank
\* line; every other response has no header block and none of the three
\* lines.
C8_InjectedAfterBaseHeaders ==
    \A c \in Clients :
        /\ BlankAt(wfile[c]) > 0 =>
                /\ AnsweredWithHeaders(RequestOf(c))
                /\ PlacedAfterBaseHeaders(wfile[c], RequestOf(c))
        /\ Answered(c) =>
                IF AnsweredWithHeaders(RequestOf(c))
                THEN BlankAt(wfile[c]) > 0
                ELSE \A k \in 1..Len(wfile[c]) : wfile[c][k][1] = "body"

C8_Witness ==
    \E c \in Clients :
        /\ Answered(c)
        /\ BlankAt(wfile[c]) = 10
        /\ wfile[c][6][2] = "Last-Modified"
        /\ SubSeq(wfile[c], 7, 9) = Injected

\* ---------------------------------------------------------------- C9
\* the inherited end_headers() has run: the blank line is written
Finalized(c) == BlankAt(wfile[c]) > 0
LastLines(s, k) == SubSeq(s, Len(s) - k + 1, Len(s))

\* C9 as stated: an injected header is in the buffer only after the
\* inherited end_headers() has run.
C9_BaseFinalizationFirst ==
    \A c \in Clients :
        (\E i \in 1..Len(handler[c].headers_buffer) :
            \E j \in 1..3 : handler[c].headers_buffer[i] = Injected[j])
        => Finalized(c)

\* C9 amended: in the hook the three injected headers are added first, in
\* order, and the inherited end_headers() is invoked last: while the hook
\* runs nothing is finalized and the buffer ends with the injected headers
\* added so far, and once the header block is finalized the buffer is empty
\* and the block holds all three.
C9_InjectedThenFinalized ==
    \A c \in Clients :
        LET h == handler[c] IN
        /\ h.pc = "end_headers" =>
            /\ ~Finalized(c)
            /\ h.ip <= 4
            /\ h.request_version # "HTTP/0.9" =>
                /\ Len(h.headers_buffer) >= h.ip - 1
                /\ LastLines(h.headers_buffer, h.ip - 1) = SubSeq(Injected, 1, h.ip - 1)
        /\ Finalized(c) =>
            /\ h.pc \in {"body", "finish", "done"}
            /\ h.headers_buffer = <<>>
            /\ SubSeq(wfile[c], BlankAt(wfile[c]) - 3, BlankAt(wfile[c]) - 1) = Injected

C9_Witness ==
    \E c \in Clients :
        /\ handler[c].pc = "end_headers"
        /\ handler[c].ip = 4
        /\ Len(handler[c].headers_buffer) >= 3
        /\ LastLines(handler[c].headers_buffer, 3) = Injected
        /\ wfile[c] = <<>>

\* ---------------------------------------------------------------- C10
Busy == {c \in Clients : conn[c] \in {"handshake", "open"}}

\* C10: at most one connection is in its handshake or being handled, and it
\* is the loop's current one; a connection is accepted only when the loop
\* has none; and while the current connection is stalled it stays current,
\* and no other connection is accepted, written to or closed.
C10_OneAtATime ==
    /\ [](Cardinality(Busy) <= 1 /\ \A c \in Busy : cur = c)
    /\ [][\A c \in Clients :
            /\ (conn[c] = "queued" /\ conn'[c] \in {"handshake", "open"}) => cur = None
            /\ (cur = c /\ Stalled(c)) =>
                /\ cur' = c /\ Stalled(c)'
                /\ wfile' = wfile
                /\ \A d \in Clients \ {c} : conn'[d] \in {conn[d], "queued"}
         ]_vars

C10_Witness ==
    \E c, d \in Clients :
        /\ cur = c /\ Stalled(c)
        /\ conn[d] = "queued" /\ kind[d] = "good"
        /\ pc = "serving"
====
